---------------------------- MODULE Spec2Model ----------------------------
(***************************************************************************)
(* A model of rip_str: the Splitter (src/src/splitter.rs), the Segment     *)
(* (src/src/segment.rs) and the RipString buffer (src/src/lib.rs).         *)
(*                                                                         *)
(* A string (&str / String) is a sequence of Unicode scalar values; its    *)
(* byte length and byte offsets are those of its UTF-8 encoding.  A run    *)
(* (SegmentType) is a record [tag, val]: val holds bytes for Ascii,        *)
(* scalars for Utf8 and strings (one per grapheme cluster) for Unicode.    *)
(* Vec / VecDeque are sequences, index 0 of the code being index 1 here;   *)
(* an Option is a sequence of length 0 (None) or 1 (Some).                 *)
(***************************************************************************)
EXTENDS Integers, Sequences, FiniteSets, TLC

(***************************************************************************)
(* Block sizes.  The source sets MAX_BLOCK_SIZE = 1024 and                 *)
(* MIN_BLOCK_SIZE = 512 (splitter.rs:8-9); the model runs the same code    *)
(* with the block sizes scaled down, so that buffers which fill and cross  *)
(* blocks are small enough to enumerate.                                   *)
(***************************************************************************)
MAX_BLOCK_SIZE == 8
MIN_BLOCK_SIZE == 4

\* The number of edits applied to a buffer constructed by RipString::new().
MaxEdits == 3

\* The number of edits applied to a buffer constructed from a text.
MaxEditsFrom == 2

\* The number of chunks a source text of the splitter is made of.
MaxChunks == 4

Min(a, b) == IF a < b THEN a ELSE b

(***************************************************************************)
(* Strings and UTF-8.                                                      *)
(***************************************************************************)

\* The number of bytes of the UTF-8 encoding of scalar c.
Utf8Len(c) == IF c < 128 THEN 1 ELSE IF c < 2048 THEN 2 ELSE IF c < 65536 THEN 3 ELSE 4

RECURSIVE ByteLen(_)
\* str::len: the length of a string in bytes.
ByteLen(s) == IF s = <<>> THEN 0 ELSE Utf8Len(Head(s)) + ByteLen(Tail(s))

\* The byte offset at which scalar number k (from 1) of s starts.
ByteOffset(s, k) == ByteLen(SubSeq(s, 1, k - 1))

\* str::is_char_boundary
IsCharBoundary(s, p) == \E k \in 1..(Len(s) + 1) : ByteOffset(s, k) = p

\* &s[..p]: the scalars that lie before byte offset p (a char boundary).
StrBefore(s, p) ==
    LET k == CHOOSE j \in 1..(Len(s) + 1) : ByteOffset(s, j) = p
    IN  SubSeq(s, 1, k - 1)

\* &s[p..]: the scalars from byte offset p (a char boundary) on.
StrFrom(s, p) ==
    LET k == CHOOSE j \in 1..(Len(s) + 1) : ByteOffset(s, j) = p
    IN  SubSeq(s, k, Len(s))

\* memrchr(b, &s.as_bytes()[lo..hi]) for an ASCII byte b: the offset, counted
\* from lo, of the last byte b in [lo, hi), or -1 for None.  In UTF-8 an ASCII
\* byte occurs only as the encoding of that scalar.
Memrchr(b, s, lo, hi) ==
    LET offs == {ByteOffset(s, k) : k \in {j \in 1..Len(s) : s[j] = b}}
        hits == {o \in offs : lo <= o /\ o < hi}
    IN  IF hits = {} THEN -1
        ELSE (CHOOSE o \in hits : \A q \in hits : q <= o) - lo

RECURSIVE FloorCharBoundary(_, _)
\* while !is_char_boundary(split_point) { split_point -= 1 }
FloorCharBoundary(s, p) ==
    IF IsCharBoundary(s, p) THEN p ELSE FloorCharBoundary(s, p - 1)

\* u8::is_ascii_alphabetic
IsAsciiAlphabetic(b) == (65 <= b /\ b <= 90) \/ (97 <= b /\ b <= 122)

\* str::is_ascii
IsAscii(s) == \A i \in 1..Len(s) : s[i] < 128

(***************************************************************************)
(* The grapheme-cluster iterator the splitter consumes                     *)
(* (seshat::unicode::Segmentation).  Of UAX #29 the model keeps: CR LF is  *)
(* one cluster (GB3); a control stands alone (GB4, GB5); any other scalar  *)
(* takes the Extend scalars that follow it (GB9); otherwise break (GB999). *)
(***************************************************************************)
IsControl(c) == c = 10 \/ c = 13
IsExtend(c) == 768 <= c /\ c <= 879

RECURSIVE ExtendRun(_, _)
\* The number of Extend scalars of s from position k on.
ExtendRun(s, k) ==
    IF k <= Len(s) /\ IsExtend(s[k]) THEN 1 + ExtendRun(s, k + 1) ELSE 0

\* The number of scalars of the first grapheme cluster of the non-empty s.
FirstClusterLen(s) ==
    IF s[1] = 13 /\ Len(s) >= 2 /\ s[2] = 10 THEN 2
    ELSE IF IsControl(s[1]) THEN 1
    ELSE 1 + ExtendRun(s, 2)

RECURSIVE BreakGraphemes(_)
\* str.break_graphemes(): the grapheme clusters of s, in order.
BreakGraphemes(s) ==
    IF s = <<>> THEN <<>>
    ELSE LET n == FirstClusterLen(s)
         IN  <<SubSeq(s, 1, n)>> \o BreakGraphemes(SubSeq(s, n + 1, Len(s)))

(***************************************************************************)
(* SegmentType (segment.rs:17-77).                                         *)
(***************************************************************************)
Ascii(val) == [tag |-> "Ascii", val |-> val]
Utf8(val) == [tag |-> "Utf8", val |-> val]
Unicode(val) == [tag |-> "Unicode", val |-> val]

\* SegmentType::len
TpLen(tp) == Len(tp.val)

\* SegmentType::is_empty
TpIsEmpty(tp) == TpLen(tp) = 0

RECURSIVE Flatten(_)
\* The concatenation of a sequence of strings.
Flatten(ss) == IF Len(ss) = 0 THEN <<>> ELSE Head(ss) \o Flatten(Tail(ss))

\* String::from_utf8_lossy on a byte vector: an ASCII byte is its scalar, any
\* other byte becomes U+FFFD.
FromUtf8Lossy(bytes) == [i \in 1..Len(bytes) |-> IF bytes[i] < 128 THEN bytes[i] ELSE 65533]

\* Display for SegmentType: the string a run renders as.
TpDisplay(tp) ==
    IF tp.tag = "Ascii" THEN FromUtf8Lossy(tp.val)
    ELSE IF tp.tag = "Utf8" THEN tp.val
    ELSE Flatten(tp.val)

(***************************************************************************)
(* Splitter (splitter.rs).  A splitter is [buffer, segments]: the text     *)
(* left and the deque of pending runs, front first.                        *)
(***************************************************************************)
SplitterNew(text) == [buffer |-> text, segments |-> <<>>]

\* A push_front that queues at the back: the runs of a window would leave
\* newest first.
PushFrontAtBack(q, x) == q \o <<x>>

\* VecDeque::push_front, as make_segments queues a finished run.
PushFront(q, x) == <<x>> \o q

\* A loop body that queues the current run at every change of type, empty or
\* not.
GraphemeStepFlushAlways(st, seq) ==
    LET flush(newcur) == [cur |-> newcur, segs |-> PushFront(st.segs, st.cur)]
    IN  IF IsAscii(seq) THEN
            IF st.cur.tag = "Ascii" THEN [st EXCEPT !.cur.val = @ \o seq]
            ELSE IF st.cur.tag = "Utf8" /\ ~(\E i \in 1..Len(seq) : IsAsciiAlphabetic(seq[i]))
            THEN [st EXCEPT !.cur.val = @ \o seq]
            ELSE flush(Ascii(seq))
        ELSE IF ByteLen(seq) > 2 THEN
            IF st.cur.tag = "Unicode" THEN [st EXCEPT !.cur.val = Append(@, seq)]
            ELSE flush(Unicode(<<seq>>))
        ELSE
            IF st.cur.tag = "Utf8" THEN [st EXCEPT !.cur.val = @ \o seq]
            ELSE flush(Utf8(seq))

\* A loop body in which every non-ASCII cluster goes to a run of scalars.
GraphemeStepScalars(st, seq) ==
    LET flush(newcur) ==
            [cur |-> newcur,
             segs |-> IF TpIsEmpty(st.cur) THEN st.segs ELSE PushFront(st.segs, st.cur)]
    IN  IF IsAscii(seq) THEN
            IF st.cur.tag = "Ascii" THEN [st EXCEPT !.cur.val = @ \o seq]
            ELSE IF st.cur.tag = "Utf8" /\ ~(\E i \in 1..Len(seq) : IsAsciiAlphabetic(seq[i]))
            THEN [st EXCEPT !.cur.val = @ \o seq]
            ELSE flush(Ascii(seq))
        ELSE
            IF st.cur.tag = "Utf8" THEN [st EXCEPT !.cur.val = @ \o seq]
            ELSE flush(Utf8(seq))

\* A loop body in which an ASCII cluster never joins a run of scalars.
GraphemeStepNoJoin(st, seq) ==
    LET flush(newcur) ==
            [cur |-> newcur,
             segs |-> IF TpIsEmpty(st.cur) THEN st.segs ELSE PushFront(st.segs, st.cur)]
    IN  IF IsAscii(seq) THEN
            IF st.cur.tag = "Ascii" THEN [st EXCEPT !.cur.val = @ \o seq]
            ELSE flush(Ascii(seq))
        ELSE IF ByteLen(seq) > 2 THEN
            IF st.cur.tag = "Unicode" THEN [st EXCEPT !.cur.val = Append(@, seq)]
            ELSE flush(Unicode(<<seq>>))
        ELSE
            IF st.cur.tag = "Utf8" THEN [st EXCEPT !.cur.val = @ \o seq]
            ELSE flush(Utf8(seq))

\* The body of the for loop of make_segments for one grapheme cluster seq:
\* st = [cur, segs] is (current_seq, self.segments).
GraphemeStep(st, seq) ==
    LET flush(newcur) ==
            [cur |-> newcur,
             segs |-> IF TpIsEmpty(st.cur) THEN st.segs ELSE PushFront(st.segs, st.cur)]
    IN  IF IsAscii(seq) THEN
            IF st.cur.tag = "Ascii" THEN
                [st EXCEPT !.cur.val = @ \o seq]
            ELSE IF st.cur.tag = "Utf8" /\ ~(\E i \in 1..Len(seq) : IsAsciiAlphabetic(seq[i])) THEN
                [st EXCEPT !.cur.val = @ \o seq]
            ELSE flush(Ascii(seq))
        ELSE IF ByteLen(seq) > 2 THEN
            IF st.cur.tag = "Unicode" THEN
                [st EXCEPT !.cur.val = Append(@, seq)]
            ELSE flush(Unicode(<<seq>>))
        ELSE
            IF st.cur.tag = "Utf8" THEN
                [st EXCEPT !.cur.val = @ \o seq]
            ELSE flush(Utf8(seq))

RECURSIVE GraphemeLoop(_, _)
\* for seq in str.break_graphemes() { ... }
GraphemeLoop(st, gs) ==
    IF gs = <<>> THEN st ELSE GraphemeLoop(GraphemeStep(st, Head(gs)), Tail(gs))

\* self.segments.pop_back(), with buffer the text left: [sp, item], the
\* splitter afterwards and the Option returned.
PopBack(buffer, segs) ==
    IF segs = <<>> THEN [sp |-> [buffer |-> buffer, segments |-> segs], item |-> <<>>]
    ELSE [sp |-> [buffer |-> buffer, segments |-> SubSeq(segs, 1, Len(segs) - 1)],
          item |-> <<segs[Len(segs)]>>]

\* A make_segments that forgets the run still open at the end of the window.
FlushCurrentDropped(st) == st.segs

\* if !current_seq.is_empty() { self.segments.push_front(current_seq) }
FlushCurrent(st) ==
    IF TpIsEmpty(st.cur) THEN st.segs ELSE PushFront(st.segs, st.cur)

\* Splitter::make_segments: [sp, item], the splitter afterwards and the
\* Option it returns.
MakeSegments(sp, split_point) ==
    PopBack(StrFrom(sp.buffer, split_point),
            FlushCurrent(GraphemeLoop([cur |-> Ascii(<<>>), segs |-> sp.segments],
                                      BreakGraphemes(StrBefore(sp.buffer, split_point)))))

\* A window of no bytes.
WindowEndNowhere(buffer) == 0

\* A window that ends at the cap, newlines or not.
WindowEndAtCap(buffer) ==
    FloorCharBoundary(buffer, Min(MAX_BLOCK_SIZE, ByteLen(buffer) - MIN_BLOCK_SIZE))

\* A next() that takes all the text left as one window.
WindowEndWhole(buffer) == ByteLen(buffer)

\* The byte offset at which next() ends the window when the text left is
\* longer than MAX_BLOCK_SIZE bytes.
WindowEnd(buffer) ==
    LET split_point == Min(MAX_BLOCK_SIZE, ByteLen(buffer) - MIN_BLOCK_SIZE)
        pos == Memrchr(10, buffer, MIN_BLOCK_SIZE - 1, split_point)
    IN  IF pos # -1 THEN MIN_BLOCK_SIZE + pos
        ELSE FloorCharBoundary(buffer, split_point)

\* Iterator::next for Splitter: [sp, item].
SplitterNext(sp) ==
    IF sp.buffer = <<>> /\ sp.segments = <<>> THEN [sp |-> sp, item |-> <<>>]
    ELSE IF sp.segments = <<>> THEN
        IF ByteLen(sp.buffer) <= MAX_BLOCK_SIZE
        THEN MakeSegments(sp, ByteLen(sp.buffer))
        ELSE MakeSegments(sp, WindowEnd(sp.buffer))
    ELSE [sp |-> [sp EXCEPT !.segments = SubSeq(@, 1, Len(@) - 1)],
          item |-> <<sp.segments[Len(sp.segments)]>>]

RECURSIVE Drain(_)
\* Iterator::collect: the runs next() returns up to its first None.
Drain(sp) ==
    LET r == SplitterNext(sp)
    IN  IF r.item = <<>> THEN <<>> ELSE r.item \o Drain(r.sp)

\* Splitter::new(text).collect()
Collect(text) == Drain(SplitterNew(text))

RECURSIVE DisplayAll(_)
\* The renderings of a sequence of runs, concatenated.
DisplayAll(tps) == IF tps = <<>> THEN <<>> ELSE TpDisplay(Head(tps)) \o DisplayAll(Tail(tps))


(***************************************************************************)
(* SegmentType::try_merge and split, and Segment (segment.rs:11-215).      *)
(* A segment is [index, tp].                                               *)
(***************************************************************************)
Segment(index, tp) == [index |-> index, tp |-> tp]

\* Segment::default
SegmentDefault == Segment(0, Ascii(<<>>))

\* A try_merge without the block-size test.
TpTryMergeUnbounded(a, b) ==
    IF a.tag = b.tag THEN [self |-> [a EXCEPT !.val = @ \o b.val], rest |-> <<>>]
    ELSE [self |-> a, rest |-> <<b>>]

\* A try_merge that also merges up to MAX_BLOCK_SIZE elements.
TpTryMergeInclusive(a, b) ==
    IF TpLen(a) + TpLen(b) > MAX_BLOCK_SIZE THEN [self |-> a, rest |-> <<b>>]
    ELSE IF a.tag = b.tag THEN [self |-> [a EXCEPT !.val = @ \o b.val], rest |-> <<>>]
    ELSE [self |-> a, rest |-> <<b>>]

\* SegmentType::try_merge(&mut self, seg_type): [self, rest], self afterwards
\* and the Option returned.
TpTryMerge(a, b) ==
    IF TpLen(a) + TpLen(b) >= MAX_BLOCK_SIZE THEN [self |-> a, rest |-> <<b>>]
    ELSE IF a.tag = b.tag THEN [self |-> [a EXCEPT !.val = @ \o b.val], rest |-> <<>>]
    ELSE [self |-> a, rest |-> <<b>>]

\* SegmentType::split(&mut self, at): [head, tail], self afterwards and the
\* run returned (Vec::split_off).
TpSplit(tp, at) ==
    [head |-> [tp EXCEPT !.val = SubSeq(@, 1, at)],
     tail |-> [tp EXCEPT !.val = SubSeq(@, at + 1, Len(@))]]

\* A try_merge that drops the run it could not merge.
SegTryMergeLossy(tp, q) ==
    IF q = <<>> THEN [tp |-> tp, q |-> q]
    ELSE [tp |-> TpTryMerge(tp, Head(q)).self, q |-> Tail(q)]

\* Segment::try_merge(&mut self, new_segments): [tp, q], self.tp and the deque
\* afterwards.
SegTryMerge(tp, q) ==
    IF q = <<>> THEN [tp |-> tp, q |-> q]
    ELSE LET r == TpTryMerge(tp, Head(q))
         IN  [tp |-> r.self, q |-> r.rest \o Tail(q)]

RECURSIVE NonEmptySegments(_)
\* new_segments.into_iter().filter(|t| !t.is_empty()).map(|t| Segment::new(0, t))
NonEmptySegments(q) ==
    IF q = <<>> THEN <<>>
    ELSE (IF TpIsEmpty(Head(q)) THEN <<>> ELSE <<Segment(0, Head(q))>>)
         \o NonEmptySegments(Tail(q))

\* The Option<VecDeque<Segment>> insert and replace return.
Overflow(q) == IF q = <<>> THEN <<>> ELSE <<NonEmptySegments(q)>>

\* An insert without the case of the empty segment: the segment keeps its
\* type and the first run is merged into it when it can be.
InsertRunsNoAdopt(tp, index, new_segments) ==
    IF TpLen(tp) = 0 \/ index = TpLen(tp) - 1 THEN
        SegTryMerge(tp, new_segments)
    ELSE IF index = 0 THEN
        IF new_segments # <<>>
        THEN SegTryMerge(Head(new_segments), Append(Tail(new_segments), tp))
        ELSE [tp |-> tp, q |-> new_segments]
    ELSE SegTryMerge(TpSplit(tp, index).head, Append(new_segments, TpSplit(tp, index).tail))

\* An insert without the case of the last position: index == len - 1 splits
\* the segment like any other inner index.
InsertRunsNoAppend(tp, index, new_segments) ==
    IF TpLen(tp) = 0 THEN
        IF new_segments # <<>>
        THEN [tp |-> Head(new_segments), q |-> Tail(new_segments)]
        ELSE [tp |-> tp, q |-> new_segments]
    ELSE IF index = 0 THEN
        IF new_segments # <<>>
        THEN SegTryMerge(Head(new_segments), Append(Tail(new_segments), tp))
        ELSE [tp |-> tp, q |-> new_segments]
    ELSE SegTryMerge(TpSplit(tp, index).head, Append(new_segments, TpSplit(tp, index).tail))

\* The branches of Segment::insert on the runs new_segments of the text:
\* [tp, q], self.tp and new_segments afterwards.
InsertRuns(tp, index, new_segments) ==
    IF TpLen(tp) = 0 THEN
        IF new_segments # <<>>
        THEN [tp |-> Head(new_segments), q |-> Tail(new_segments)]
        ELSE [tp |-> tp, q |-> new_segments]
    ELSE IF index = TpLen(tp) - 1 THEN
        SegTryMerge(tp, new_segments)
    ELSE IF index = 0 THEN
        IF new_segments # <<>>
        THEN SegTryMerge(Head(new_segments), Append(Tail(new_segments), tp))
        ELSE [tp |-> tp, q |-> new_segments]
    ELSE SegTryMerge(TpSplit(tp, index).head, Append(new_segments, TpSplit(tp, index).tail))

\* The segment and the Option<VecDeque<Segment>> insert and replace leave.
Outcome(seg, r) == [seg |-> [seg EXCEPT !.tp = r.tp], out |-> Overflow(r.q)]

\* Segment::insert(&mut self, index, text): [seg, out].
SegInsert(seg, at, text) ==
    Outcome(seg, InsertRuns(seg.tp, at - seg.index, Collect(text)))

\* Segment::cut(&mut self, range): [seg, out], out the Option<Segment>.
SegCut(seg, range_start, range_end) ==
    LET start == range_start - seg.index
        end == range_end - seg.index
    IN  IF start >= TpLen(seg.tp) THEN [seg |-> seg, out |-> <<>>]
        ELSE IF end >= TpLen(seg.tp) THEN
            [seg |-> [seg EXCEPT !.tp = TpSplit(@, start).head], out |-> <<>>]
        ELSE LET s1 == TpSplit(seg.tp, start)
                 last == TpSplit(s1.tail, end - start).tail
             IN  IF TpLen(last) < MIN_BLOCK_SIZE \/ TpLen(s1.head) < MIN_BLOCK_SIZE THEN
                     LET m == TpTryMerge(s1.head, last)
                     IN  [seg |-> [seg EXCEPT !.tp = m.self],
                          out |-> IF m.rest # <<>> /\ ~TpIsEmpty(m.rest[1])
                                  THEN <<Segment(0, m.rest[1])>> ELSE <<>>]
                 ELSE [seg |-> [seg EXCEPT !.tp = s1.head], out |-> <<>>]

\* A replace that never keeps what lies behind the range.
ReplaceRunsNoSuffix(tp, start, end, new_segments) ==
    SegTryMerge(TpSplit(tp, start).head, new_segments)

\* The branches of Segment::replace on the runs new_segments of the text:
\* [tp, q], self.tp and new_segments afterwards.
ReplaceRuns(tp, start, end, new_segments) ==
    IF end > TpLen(tp) THEN
        SegTryMerge(TpSplit(tp, start).head, new_segments)
    ELSE
        LET tail == TpSplit(tp, end).tail
            r == SegTryMerge(TpSplit(TpSplit(tp, end).head, start).head, new_segments)
        IN  [tp |-> r.tp, q |-> IF TpIsEmpty(tail) THEN r.q ELSE Append(r.q, tail)]

\* Segment::replace(&mut self, range, text): [seg, out].
SegReplace(seg, range_start, range_end, text) ==
    Outcome(seg, ReplaceRuns(seg.tp, range_start - seg.index, range_end - seg.index,
                             Collect(text)))

\* Segment::ord
Ord(seg, index) ==
    IF seg.index > index THEN "Greater"
    ELSE IF TpLen(seg.tp) + seg.index < index THEN "Less"
    ELSE "Equal"

\* Segment::contains
Contains(seg, index) == Ord(seg, index) = "Equal"

(***************************************************************************)
(* RipString (lib.rs): nodes, the vector of segments, and last_edit.       *)
(***************************************************************************)

\* The outcome of a lookup that panics.
Panic == -1

\* RipString::new
RipNew == [nodes |-> <<SegmentDefault>>, last_edit |-> 0]

RECURSIVE FromFold(_, _, _)
\* The fold of From<String>: index += seg.len(); acc.push(Segment::new(index, seg)).
FromFold(runs, index, acc) ==
    IF runs = <<>> THEN acc
    ELSE LET next == index + TpLen(Head(runs))
         IN  FromFold(Tail(runs), next, Append(acc, Segment(next, Head(runs))))

\* A From<String> that leaves the vector of an empty text empty.
RipFromNoDefault(val) == [nodes |-> FromFold(Collect(val), 0, <<>>), last_edit |-> 0]

\* impl From<String> for RipString
RipFrom(val) ==
    LET folded == FromFold(Collect(val), 0, <<>>)
    IN  [nodes |-> IF folded = <<>> THEN <<SegmentDefault>> ELSE folded, last_edit |-> 0]

RECURSIVE RipDisplay(_)
\* Display for RipString (to_string): the segments' renderings in order.
RipDisplay(ns) == IF ns = <<>> THEN <<>> ELSE TpDisplay(Head(ns).tp) \o RipDisplay(Tail(ns))

RECURSIVE FixLoop(_, _, _)
\* for i in seg_index + 1..self.nodes.len() { set_index(next_index); next_index += len }
FixLoop(ns, i, next_index) ==
    IF i >= Len(ns) THEN ns
    ELSE FixLoop([ns EXCEPT ![i + 1].index = next_index], i + 1,
                 next_index + TpLen(ns[i + 1].tp))

\* RipString::fix_index_from
FixIndexFrom(ns, seg_index) ==
    FixLoop(ns, seg_index + 1, ns[seg_index + 1].index + TpLen(ns[seg_index + 1].tp))

\* self.nodes.binary_search_by(|seg| seg.ord(index)).expect(..): the positions
\* it may return, Panic among them when it may find none.  The standard
\* library returns any one of the matches, and an unspecified result on a slice
\* the comparator does not order (Less, then Equal, then Greater); it returns
\* Ok(k) only for a k it has seen compare Equal.
BinarySearchBy(ns, index) ==
    LET rank(o) == IF o = "Less" THEN 0 ELSE IF o = "Equal" THEN 1 ELSE 2
        eq == {k \in 0..(Len(ns) - 1) : Ord(ns[k + 1], index) = "Equal"}
        ordered == \A i, j \in 1..Len(ns) :
                       i < j => rank(Ord(ns[i], index)) <= rank(Ord(ns[j], index))
    IN  IF eq = {} THEN {Panic}
        ELSE IF ordered THEN eq
        ELSE eq \cup {Panic}

\* A find_segment that does not look at the segment of the last edit first.
FindSegmentSearchOnly(ns, le, index) ==
    IF le >= Len(ns) THEN {Panic} ELSE BinarySearchBy(ns, index)

\* RipString::find_segment: the positions it may return; Panic also stands for
\* the out-of-range self.nodes[self.last_edit].
FindSegment(ns, le, index) ==
    IF le >= Len(ns) THEN {Panic}
    ELSE IF Contains(ns[le + 1], index) THEN {le}
    ELSE BinarySearchBy(ns, index)

\* A splice that puts the overflow behind the last segment of the buffer.
SpliceAtEnd(ns, seg_index, r) ==
    IF r.out = <<>> THEN [ns EXCEPT ![seg_index + 1] = r.seg]
    ELSE [ns EXCEPT ![seg_index + 1] = r.seg] \o r.out[1]

\* The splice of edit's insert branch: the overflow r.out goes after segment
\* seg_index, which becomes r.seg (lib.rs:34-42).
Splice(ns, seg_index, r) ==
    IF r.out = <<>> THEN [ns EXCEPT ![seg_index + 1] = r.seg]
    ELSE IF seg_index = Len(ns) - 1 THEN [ns EXCEPT ![seg_index + 1] = r.seg] \o r.out[1]
    ELSE Append(SubSeq(ns, 1, seg_index), r.seg) \o r.out[1]
         \o SubSeq(ns, seg_index + 2, Len(ns))

\* edit, range empty and new not: the nodes after the insert into segment
\* seg_index (lib.rs:33-44).
InsertAt(ns, seg_index, start, new) ==
    FixIndexFrom(Splice(ns, seg_index, SegInsert(ns[seg_index + 1], start, new)), seg_index)

\* A filter that also drops the segment the cut ends in.
KeepOutsideStrict(ns, seg_index, last_seg_index) ==
    SelectSeq([i \in 1..Len(ns) |-> [i |-> i - 1, n |-> ns[i]]],
              LAMBDA e : e.i <= seg_index \/ e.i > last_seg_index)

\* .enumerate().filter(|(i, _n)| *i <= seg_index || *i >= last_seg_index)
KeepOutside(ns, seg_index, last_seg_index) ==
    SelectSeq([i \in 1..Len(ns) |-> [i |-> i - 1, n |-> ns[i]]],
              LAMBDA e : e.i <= seg_index \/ e.i >= last_seg_index)

\* edit, range not empty and new empty: the nodes after the cut, seg_index and
\* last_seg_index being the segments of range.start and range.end
\* (lib.rs:50-78).
CutAt(ns, seg_index, last_seg_index, start, end) ==
    IF last_seg_index = seg_index THEN
        LET c == SegCut(ns[seg_index + 1], start, end)
            ns0 == [ns EXCEPT ![seg_index + 1] = c.seg]
            ns1 == IF c.out = <<>> THEN ns0
                   ELSE IF seg_index = Len(ns0) - 1 THEN Append(ns0, c.out[1])
                   ELSE SubSeq(ns0, 1, seg_index + 1) \o c.out
                        \o SubSeq(ns0, seg_index + 2, Len(ns0))
        IN  FixIndexFrom(ns1, seg_index)
    ELSE
        LET c1 == SegCut(ns[seg_index + 1], start, end)
            ns0 == [ns EXCEPT ![seg_index + 1] = c1.seg]
            node == ns0[last_seg_index + 1]
            c2 == SegCut(node, node.index, end)
            ns1 == [ns0 EXCEPT ![last_seg_index + 1] =
                        IF c2.out # <<>> THEN c2.out[1] ELSE c2.seg]
            kept == KeepOutside(ns1, seg_index, last_seg_index)
            ns2 == [i \in 1..Len(kept) |-> kept[i].n]
        IN  FixIndexFrom(ns2, seg_index)

(***************************************************************************)
(* The state.  nodes, last_edit: the RipString.  panicked: a call has      *)
(* panicked (the buffer is as the panic left it).  sp: a Splitter, and     *)
(* emitted: the runs its next() has returned, done: next() has returned    *)
(* None.  The other variables record the history the properties speak of:  *)
(* ctor, how the buffer was constructed; src, the text given to            *)
(* From<String> or to Splitter::new; op, the last call; arg, its range and *)
(* the segments find_segment gave it; pre, the buffer before it; inb,      *)
(* whether every edit so far was within bounds; edits, their number;       *)
(* mode, "cursor" while every edit so far has inserted at the end of the   *)
(* buffer, "single" while every edit so far has been an insert or a cut    *)
(* within one segment, "any" otherwise; typed, in mode "cursor" the texts  *)
(* inserted so far, concatenated; window, the byte offset at which the     *)
(* last call of next() that cut a window off a text longer than            *)
(* MAX_BLOCK_SIZE bytes ended it (an Option).                              *)
(***************************************************************************)
VARIABLES nodes, last_edit, panicked, sp, emitted, done,
          ctor, src, op, arg, pre, inb, edits, mode, typed, window

vars ==
    <<nodes, last_edit, panicked, sp, emitted, done,
      ctor, src, op, arg, pre, inb, edits, mode, typed, window>>

rope == <<nodes, last_edit, panicked, ctor, op, arg, pre, inb, edits, mode, typed>>

\* The texts edits insert.
EditTexts ==
    { <<97, 98, 99, 100>>,       \* "abcd"
      <<101>>,                   \* "e"
      <<102, 1076, 46, 103>>,    \* "f", CYRILLIC DE, ".", "g": three runs
      <<104, 769>> }             \* "h", COMBINING ACUTE ACCENT: one cluster

\* The texts edits replace a range with.
ReplaceTexts == { <<101, 1076>> }

\* The texts a buffer is constructed from.
FromTexts ==
    { <<>>,
      <<97, 98>>,                \* "ab"
      <<128520, 128520, 97>> }   \* two emoji (4 bytes each) and "a"

\* The pieces the splitter's source texts are made of: "abc", newline, ".",
\* CYRILLIC DE (2 bytes), EURO SIGN (3 bytes), an emoji (4 bytes), COMBINING
\* ACUTE ACCENT (2 bytes, Extend).
Chunks == { <<97, 98, 99>>, <<10>>, <<46>>, <<1076>>, <<8364>>, <<128520>>, <<769>> }

\* The logical length of the buffer: the sum of the segments' lengths.
RECURSIVE TotalLen(_)
TotalLen(ns) == IF ns = <<>> THEN 0 ELSE TpLen(Head(ns).tp) + TotalLen(Tail(ns))

NoArg == [start |-> 0, end |-> 0, text |-> <<>>, seg |-> 0, last |-> 0]

NoPre == [nodes |-> <<>>, last_edit |-> 0]

IdleSplitter ==
    /\ sp = SplitterNew(<<>>)
    /\ emitted = <<>>
    /\ done = FALSE
    /\ window = <<>>

\* After construction: RipString::new(), or RipString::from(text).
Init ==
    /\ IdleSplitter
    /\ \/ /\ nodes = RipNew.nodes
          /\ last_edit = RipNew.last_edit
          /\ ctor = "new"
          /\ src = <<>>
       \/ \E text \in FromTexts :
              /\ nodes = RipFrom(text).nodes
              /\ last_edit = RipFrom(text).last_edit
              /\ ctor = "from"
              /\ src = text
    /\ panicked = FALSE
    /\ op = "construct"
    /\ arg = NoArg
    /\ pre = NoPre
    /\ inb = TRUE
    /\ edits = 0
    /\ mode = "cursor"
    /\ typed = <<>>

\* The mode after the edit name(start..end) that found the segments seg and
\* last.
NextMode(name, start, seg, last) ==
    IF mode = "cursor" /\ name = "insert" /\ start = TotalLen(nodes) THEN "cursor"
    ELSE IF mode # "any" /\ seg # Panic /\ last # Panic
            /\ (name = "insert" \/ (name = "cut" /\ seg = last)) THEN "single"
    ELSE "any"

\* What every edit records.
Record(name, start, end, text, seg, last) ==
    /\ op' = name
    /\ arg' = [start |-> start, end |-> end, text |-> text, seg |-> seg, last |-> last]
    /\ pre' = [nodes |-> nodes, last_edit |-> last_edit]
    /\ inb' = (inb /\ end <= TotalLen(nodes))
    /\ edits' = edits + 1
    /\ mode' = NextMode(name, start, seg, last)
    /\ typed' = IF NextMode(name, start, seg, last) = "cursor" THEN typed \o text ELSE <<>>
    /\ UNCHANGED <<sp, emitted, done, ctor, src, window>>

CanEdit ==
    /\ ~panicked
    /\ \/ ctor = "new" /\ edits < MaxEdits
       \/ ctor = "from" /\ edits < MaxEditsFrom

\* The indices an edit is called with: those of the buffer and one beyond.
Indices == 0..(TotalLen(nodes) + 1)

\* An empty edit that looks its segment up as the other branches do.
EditNoopLookup(start) ==
    /\ \E seg_index \in FindSegment(nodes, last_edit, start) :
          IF seg_index = Panic
          THEN panicked' = TRUE /\ UNCHANGED <<nodes, last_edit>>
          ELSE last_edit' = seg_index /\ UNCHANGED <<nodes, panicked>>
    /\ Record("noop", start, start, <<>>, 0, 0)

\* edit(start..start, "") (lib.rs:27-30): returns at once.
EditNoop(start) ==
    /\ UNCHANGED <<nodes, last_edit, panicked>>
    /\ Record("noop", start, start, <<>>, 0, 0)

\* edit(start..start, new), new not empty (lib.rs:32-44).
EditInsert(start, new) ==
    /\ \E seg_index \in FindSegment(nodes, last_edit, start) :
          /\ IF seg_index = Panic
             THEN panicked' = TRUE /\ UNCHANGED <<nodes, last_edit>>
             ELSE /\ nodes' = InsertAt(nodes, seg_index, start, new)
                  /\ last_edit' = seg_index
                  /\ UNCHANGED panicked
          /\ Record("insert", start, start, new, seg_index, seg_index)

\* A cut that cuts the segment of range.start before it looks up range.end.
EditCutEager(start, end) ==
    /\ \E seg_index \in FindSegment(nodes, last_edit, start) :
          IF seg_index = Panic
          THEN /\ panicked' = TRUE /\ UNCHANGED <<nodes, last_edit>>
               /\ Record("cut", start, end, <<>>, Panic, Panic)
          ELSE \E last_seg_index \in FindSegment(nodes, last_edit, end) :
               /\ IF last_seg_index = Panic
                  THEN /\ panicked' = TRUE
                       /\ nodes' = [nodes EXCEPT ![seg_index + 1] = SegCut(@, start, end).seg]
                       /\ UNCHANGED last_edit
                  ELSE /\ nodes' = CutAt(nodes, seg_index, last_seg_index, start, end)
                       /\ last_edit' = last_seg_index
                       /\ UNCHANGED panicked
               /\ Record("cut", start, end, <<>>, seg_index, last_seg_index)

\* edit(start..end, ""), start < end (lib.rs:46-78).
EditCut(start, end) ==
    /\ \E seg_index \in FindSegment(nodes, last_edit, start) :
          IF seg_index = Panic
          THEN /\ panicked' = TRUE /\ UNCHANGED <<nodes, last_edit>>
               /\ Record("cut", start, end, <<>>, Panic, Panic)
          ELSE \E last_seg_index \in FindSegment(nodes, last_edit, end) :
               /\ IF last_seg_index = Panic
                  THEN panicked' = TRUE /\ UNCHANGED <<nodes, last_edit>>
                  ELSE /\ nodes' = CutAt(nodes, seg_index, last_seg_index, start, end)
                       /\ last_edit' = last_seg_index
                       /\ UNCHANGED panicked
               /\ Record("cut", start, end, <<>>, seg_index, last_seg_index)

\* edit(start..end, new), start < end and new not empty (lib.rs:79-133): the
\* two lookups, and nothing else (the rest of the branch is commented out).
EditReplace(start, end, new) ==
    /\ \E seg_index \in FindSegment(nodes, last_edit, start) :
          IF seg_index = Panic
          THEN /\ panicked' = TRUE /\ UNCHANGED <<nodes, last_edit>>
               /\ Record("replace", start, end, new, Panic, Panic)
          ELSE \E last_seg_index \in FindSegment(nodes, last_edit, end) :
               /\ IF last_seg_index = Panic
                  THEN panicked' = TRUE /\ UNCHANGED <<nodes, last_edit>>
                  ELSE UNCHANGED <<nodes, last_edit, panicked>>
               /\ Record("replace", start, end, new, seg_index, last_seg_index)

\* RipString::edit, by the branch it takes.
Noop == CanEdit /\ \E start \in Indices : EditNoop(start)

Insert == CanEdit /\ \E start \in Indices, new \in EditTexts : EditInsert(start, new)

Cut == CanEdit /\ \E start \in Indices, end \in Indices : start < end /\ EditCut(start, end)

Replace ==
    CanEdit /\ \E start \in Indices, end \in Indices, new \in ReplaceTexts :
                   start < end /\ EditReplace(start, end, new)

Next == Noop \/ Insert \/ Cut \/ Replace

Spec == Init /\ [][Next]_vars

(***************************************************************************)
(* The splitter alone, and the construction of a buffer from a text: src   *)
(* is any text of at most MaxChunks chunks, next() is called on            *)
(* Splitter::new(src), and RipString::from(src) constructs the buffer.     *)
(***************************************************************************)
InitSource ==
    /\ \E n \in 0..MaxChunks : \E chunks \in [1..n -> Chunks] : src = Flatten(chunks)
    /\ sp = SplitterNew(src)
    /\ emitted = <<>>
    /\ done = FALSE
    /\ window = <<>>
    /\ nodes = <<>>
    /\ last_edit = 0
    /\ panicked = FALSE
    /\ ctor = "none"
    /\ op = "none"
    /\ arg = NoArg
    /\ pre = NoPre
    /\ inb = TRUE
    /\ edits = 0
    /\ mode = "any"
    /\ typed = <<>>

\* One call of next() on the splitter.
SplitterStep ==
    /\ ctor = "none"
    /\ LET r == SplitterNext(sp)
       IN  /\ sp' = r.sp
           /\ emitted' = emitted \o r.item
           /\ done' = (r.item = <<>>)
    /\ window' = IF sp.segments = <<>> /\ ByteLen(sp.buffer) > MAX_BLOCK_SIZE
                 THEN <<WindowEnd(sp.buffer)>> ELSE window
    /\ UNCHANGED <<src, rope>>

\* RipString::from(src)
Construct ==
    /\ ctor = "none"
    /\ emitted = <<>> /\ ~done
    /\ nodes' = RipFrom(src).nodes
    /\ last_edit' = RipFrom(src).last_edit
    /\ ctor' = "from"
    /\ op' = "construct"
    /\ UNCHANGED <<panicked, sp, emitted, done, src, arg, pre, inb, edits, mode, typed, window>>

NextSource == SplitterStep \/ Construct

SpecSource == InitSource /\ [][NextSource]_vars

\* The splitter alone, next() called again and again: a caller that iterates
\* (collect, for) calls next() until it returns None.
NextDrain == SplitterStep

\* Weak fairness of the calls, WF_vars(NextDrain), with its enabling condition
\* written out: a call changes the state, by the run or the None it returns,
\* exactly when done does not hold yet.
FairDrain == []<>done \/ []<><<NextDrain>>_vars

SpecDrain == InitSource /\ [][NextDrain]_vars /\ FairDrain

(***************************************************************************)
(* A segment alone: one call of Segment::cut, insert, replace or try_merge *)
(* on a segment of any length up to MAX_BLOCK_SIZE.  nodes holds the       *)
(* segment and, after the call, the siblings the call returned behind it.  *)
(***************************************************************************)

\* The contents of the segment: ASCII letters of every length up to
\* MAX_BLOCK_SIZE and a run of scalars,
SegmentContents ==
    {Ascii([i \in 1..n |-> 96 + i]) : n \in 0..MAX_BLOCK_SIZE}
        \cup {Utf8(<<1076, 46, 1076>>)}

\* or a run of grapheme clusters.
ClusterContents == Unicode(<<<<128520>>, <<104, 769>>>>)

\* The indices of the segment.
SegmentIndices == {0, 3}

InitSegment ==
    /\ IdleSplitter
    /\ \E index \in SegmentIndices :
          \/ \E tp \in SegmentContents : nodes = <<Segment(index, tp)>>
          \/ nodes = <<Segment(index, ClusterContents)>>
    /\ last_edit = 0
    /\ panicked = FALSE
    /\ ctor = "segment"
    /\ src = <<>>
    /\ op = "construct"
    /\ arg = NoArg
    /\ pre = NoPre
    /\ inb = TRUE
    /\ edits = 0
    /\ mode = "any"
    /\ typed = <<>>

\* What a call on the segment records.
RecordSegment(name, start, end, text) ==
    /\ op' = name
    /\ arg' = [start |-> start, end |-> end, text |-> text, seg |-> 0, last |-> 0]
    /\ pre' = [nodes |-> nodes, last_edit |-> last_edit]
    /\ edits' = edits + 1
    /\ UNCHANGED <<last_edit, panicked, sp, emitted, done, ctor, src, inb, mode, typed, window>>

\* The positions a call on the segment is given: those of the segment and one
\* beyond its end.
SegmentPositions == nodes[1].index..(nodes[1].index + TpLen(nodes[1].tp) + 1)

\* self.cut(start..end), start <= end
SegmentCut ==
    /\ ctor = "segment" /\ op = "construct"
    /\ \E start \in SegmentPositions, end \in SegmentPositions :
          /\ start <= end
          /\ nodes' = <<SegCut(nodes[1], start, end).seg>> \o SegCut(nodes[1], start, end).out
          /\ RecordSegment("seg_cut", start, end, <<>>)

\* self.insert(at, text), at within the segment
SegmentInsert ==
    /\ ctor = "segment" /\ op = "construct"
    /\ \E at \in SegmentPositions, text \in EditTexts :
          /\ at <= nodes[1].index + TpLen(nodes[1].tp)
          /\ nodes' = <<SegInsert(nodes[1], at, text).seg>>
                            \o Flatten(SegInsert(nodes[1], at, text).out)
          /\ RecordSegment("seg_insert", at, at, text)

\* The texts a call of replace is given: those of an insert, and the empty one.
SegmentReplaceTexts == EditTexts \cup {<<>>}

\* self.replace(start..end, text), start <= end, start within the segment
SegmentReplace ==
    /\ ctor = "segment" /\ op = "construct"
    /\ \E start \in SegmentPositions, end \in SegmentPositions, text \in SegmentReplaceTexts :
          /\ start <= end
          /\ start <= nodes[1].index + TpLen(nodes[1].tp)
          /\ nodes' = <<SegReplace(nodes[1], start, end, text).seg>>
                            \o Flatten(SegReplace(nodes[1], start, end, text).out)
          /\ RecordSegment("seg_replace", start, end, text)

\* The texts whose runs a call of try_merge is given: those of a replace, and
\* one that starts with a run of scalars.
TryMergeTexts == SegmentReplaceTexts \cup {<<1076, 46>>}

\* self.try_merge(&mut new_segments), new_segments the runs of a text: the
\* segment, and behind it the runs left in new_segments.
SegmentTryMerge ==
    /\ ctor = "segment" /\ op = "construct"
    /\ \E text \in TryMergeTexts :
          /\ nodes' = <<[nodes[1] EXCEPT !.tp = SegTryMerge(@, Collect(text)).tp]>>
                            \o [i \in 1..Len(SegTryMerge(nodes[1].tp, Collect(text)).q) |->
                                    Segment(0, SegTryMerge(nodes[1].tp, Collect(text)).q[i])]
          /\ RecordSegment("seg_try_merge", nodes[1].index, nodes[1].index, text)

NextSegment == SegmentCut \/ SegmentInsert \/ SegmentReplace \/ SegmentTryMerge

SpecSegment == InitSegment /\ [][NextSegment]_vars

(***************************************************************************)
(* What the properties speak of.                                           *)
(***************************************************************************)

\* The rendering of element i of a run.
ElemText(tp, i) == TpDisplay([tp EXCEPT !.val = <<tp.val[i]>>])

RECURSIVE Elems(_)
\* The elements of the buffer, each as the string it renders as.
Elems(ns) ==
    IF ns = <<>> THEN <<>>
    ELSE [i \in 1..TpLen(Head(ns).tp) |-> ElemText(Head(ns).tp, i)] \o Elems(Tail(ns))

\* T[0..start) ++ text ++ T[end..n) for the buffer ns, indices in elements.
Spliced(ns, start, end, text) ==
    Flatten(SubSeq(Elems(ns), 1, start)) \o text
        \o Flatten(SubSeq(Elems(ns), end + 1, Len(Elems(ns))))

\* Each segment's index is the sum of the lengths before it.
IndexInvariant(ns) ==
    \A i \in 1..Len(ns) : ns[i].index = TotalLen(SubSeq(ns, 1, i - 1))

\* The last edit was called within bounds on a buffer that satisfied the
\* index invariant and had a valid last_edit.
PreOK ==
    /\ IndexInvariant(pre.nodes)
    /\ pre.last_edit < Len(pre.nodes)
    /\ arg.end <= TotalLen(pre.nodes)

\* The sequence q in reverse.
Reverse(q) == [i \in 1..Len(q) |-> q[Len(q) + 1 - i]]

\* to_string() after the last edit is T[0..start) ++ text ++ T[end..n), T
\* being the buffer before it.
EditSpliced ==
    /\ ~panicked
    /\ RipDisplay(nodes) = Spliced(pre.nodes, arg.start, arg.end, arg.text)

\* The segment the last edit addressed, and the position of range.start in it.
Target == pre.nodes[arg.seg + 1]

Local == arg.start - Target.index

(***************************************************************************)
(* C1.  Insert: on a buffer that satisfies the index invariant and has a   *)
(* valid last_edit, edit(i..i, t) with 0 <= i <= n and t not empty leaves  *)
(* to_string() equal to T[0..i) ++ t ++ T[i..n), wherever i falls in the   *)
(* segment that receives it.                                               *)
(***************************************************************************)
C1_InsertSplices == (op = "insert" /\ PreOK) => EditSpliced

\* An insert at the last element position of a segment of two or more
\* elements has put the text after that element instead of before it.
C1_InsertAtLastPosition ==
    /\ op = "insert" /\ PreOK /\ ~panicked
    /\ TpLen(Target.tp) >= 2
    /\ Local = TpLen(Target.tp) - 1
    /\ RipDisplay(nodes) # Spliced(pre.nodes, arg.start, arg.end, arg.text)
    /\ RipDisplay(nodes) = Spliced(pre.nodes, arg.start + 1, arg.end + 1, arg.text)

(***************************************************************************)
(* C2.  Cut: on a buffer that satisfies the index invariant and has a      *)
(* valid last_edit, edit(a..b, "") with 0 <= a < b <= n returns and leaves *)
(* to_string() equal to T[0..a) ++ T[b..n), within one segment or across   *)
(* several.                                                                *)
(***************************************************************************)
C2_CutSplices == (op = "cut" /\ PreOK) => EditSpliced

\* A cut from inside one segment to inside another, two or more segments
\* further: the segments between them are gone, a left part of the first and
\* a right part of the last survive.
C2_CutAcrossSegments ==
    /\ op = "cut" /\ PreOK /\ EditSpliced
    /\ arg.last - arg.seg >= 2
    /\ arg.start > Target.index
    /\ arg.end > pre.nodes[arg.last + 1].index
    /\ arg.end < TotalLen(pre.nodes)
    /\ Len(nodes) = Len(pre.nodes) - (arg.last - arg.seg - 1)

(***************************************************************************)
(* C3.  Replace: edit(a..b, t) with 0 <= a < b <= n and t not empty leaves *)
(* to_string() equal to T[0..a) ++ t ++ T[b..n).                           *)
(***************************************************************************)
C3_ReplaceSplices == (op = "replace" /\ PreOK) => EditSpliced

\* A replace has returned and the buffer is as it was.
C3_ReplaceDidNothing ==
    /\ op = "replace" /\ PreOK /\ ~panicked
    /\ nodes = pre.nodes
    /\ RipDisplay(nodes) # Spliced(pre.nodes, arg.start, arg.end, arg.text)

(***************************************************************************)
(* C4.  Round trip: RipString::from(s).to_string() = s, for the empty      *)
(* string and for strings longer than MAX_BLOCK_SIZE bytes too.            *)
(***************************************************************************)
C4_RoundTrip == ctor = "from" => RipDisplay(nodes) = src

\* A buffer built from a text of more than one window that is not all ASCII.
C4_LongText ==
    /\ ctor = "from"
    /\ ByteLen(src) > MAX_BLOCK_SIZE
    /\ ~IsAscii(src)
    /\ Len(nodes) >= 3
    /\ RipDisplay(nodes) = src

(***************************************************************************)
(* C5.  Index invariant: after new() or from(text) and any in-bounds       *)
(* edits, each segment's index is the sum of the lengths of the segments   *)
(* before it.                                                              *)
(***************************************************************************)
C5_IndexInvariant == inb => IndexInvariant(nodes)

\* from(text) has given its first segment its own length as index.
C5_FromIndexIsEnd ==
    /\ ctor = "from" /\ op = "construct"
    /\ TpLen(nodes[1].tp) > 0
    /\ nodes[1].index = TpLen(nodes[1].tp)

(***************************************************************************)
(* C6.  last_edit validity: after new() and any in-bounds edits,           *)
(* last_edit < number of segments.                                         *)
(***************************************************************************)
C6_LastEditValid == (ctor = "new" /\ inb) => last_edit < Len(nodes)

\* A cut across segments has removed the segments in between and left
\* last_edit at the old position of the last one.
C6_LastEditPastEnd ==
    /\ ctor = "new" /\ inb /\ op = "cut" /\ PreOK /\ ~panicked
    /\ arg.last - arg.seg >= 2
    /\ last_edit = arg.last
    /\ last_edit >= Len(nodes)

(***************************************************************************)
(* C7.  In-bounds edits never fail: after new() or from(text), no edit     *)
(* with range.start <= range.end <= length panics.                         *)
(***************************************************************************)
C7_InBoundsNeverPanics == inb => ~panicked

\* An in-bounds edit of a buffer from new() has panicked: last_edit pointed
\* past the segments.
C7_PanicAfterNew ==
    /\ ctor = "new" /\ inb /\ panicked
    /\ pre.last_edit >= Len(pre.nodes)

(***************************************************************************)
(* C8.  Block-size bound: after new() or from(text) and any in-bounds      *)
(* edits, every segment has length <= MAX_BLOCK_SIZE.                      *)
(***************************************************************************)
C8_BlockSizeBound == \A i \in 1..Len(nodes) : TpLen(nodes[i].tp) <= MAX_BLOCK_SIZE

\* An insert has left two neighbours of one type apart because together they
\* would reach MAX_BLOCK_SIZE.
C8_MergeRefused ==
    /\ op = "insert" /\ ~panicked
    /\ Len(nodes) > Len(pre.nodes)
    /\ \E i \in 1..(Len(nodes) - 1) :
          /\ nodes[i].tp.tag = nodes[i + 1].tp.tag
          /\ TpLen(nodes[i + 1].tp) > 0
          /\ TpLen(nodes[i].tp) < MAX_BLOCK_SIZE
          /\ TpLen(nodes[i].tp) + TpLen(nodes[i + 1].tp) >= MAX_BLOCK_SIZE

(***************************************************************************)
(* C9.  Splitter partition: the renderings of the runs next() has          *)
(* returned, in the order returned, then those of the runs still queued,   *)
(* oldest first, then the text not yet scanned, make up the input; once    *)
(* next() has returned None the runs returned render as the input.         *)
(***************************************************************************)
C9_SplitterPartition ==
    /\ DisplayAll(emitted) \o DisplayAll(Reverse(sp.segments)) \o sp.buffer = src
    /\ done => DisplayAll(emitted) = src

\* The splitter has finished a text of more than one window, whose first two
\* runs differ in type.
C9_Drained ==
    /\ done
    /\ ByteLen(src) > MAX_BLOCK_SIZE
    /\ Len(emitted) >= 3
    /\ emitted[1].tag # emitted[2].tag
    /\ DisplayAll(emitted) = src

(***************************************************************************)
(* C10.  Empty operation: edit(r, "") with r empty returns and leaves the  *)
(* segment list and last_edit as they were.                                *)
(***************************************************************************)
C10_EmptyEditIsNoop ==
    op = "noop" => (nodes = pre.nodes /\ last_edit = pre.last_edit /\ ~panicked)

\* An empty edit on a buffer of several segments whose last_edit is not on
\* the segment of range.start.
C10_NoopElsewhere ==
    /\ op = "noop" /\ ~panicked
    /\ Len(nodes) >= 2
    /\ pre.last_edit > 0
    /\ arg.start = 0
    /\ nodes = pre.nodes /\ last_edit = pre.last_edit

\* Two neighbours of one type that a merge would accept.
Mergeable(a, b) == a.tp.tag = b.tp.tag /\ TpLen(a.tp) + TpLen(b.tp) < MAX_BLOCK_SIZE

(***************************************************************************)
(* C11.  Out-of-bounds edits fail: on a buffer that satisfies the index    *)
(* invariant, an edit with a non-empty range or text and range.start or    *)
(* range.end beyond the length panics in find_segment, with the segments   *)
(* and last_edit as they were.                                             *)
(***************************************************************************)
C11_OutOfBoundsPanics ==
    (/\ op \in {"insert", "cut", "replace"}
     /\ IndexInvariant(pre.nodes)
     /\ (arg.start > TotalLen(pre.nodes) \/ arg.end > TotalLen(pre.nodes)))
    => (/\ panicked
        /\ (arg.seg = Panic \/ arg.last = Panic)
        /\ nodes = pre.nodes
        /\ last_edit = pre.last_edit)

\* A cut of a buffer of several segments whose start is inside the buffer and
\* whose end is not: the first lookup has succeeded and the second has
\* panicked.
C11_SecondLookupPanics ==
    /\ op = "cut" /\ panicked
    /\ IndexInvariant(pre.nodes)
    /\ pre.last_edit < Len(pre.nodes)
    /\ Len(pre.nodes) >= 2
    /\ arg.start < TotalLen(pre.nodes)
    /\ arg.end > TotalLen(pre.nodes)
    /\ arg.seg # Panic /\ arg.last = Panic
    /\ nodes = pre.nodes

(***************************************************************************)
(* C12.  Non-empty segment list: after new() or from(text), the empty text *)
(* included, and after any edits, the buffer holds at least one segment.   *)
(***************************************************************************)
C12_SomeSegment == Len(nodes) >= 1

\* A cut across three or more segments has deleted the whole content.
C12_AllCut ==
    /\ op = "cut" /\ ~panicked
    /\ Len(pre.nodes) >= 3
    /\ arg.last - arg.seg >= 2
    /\ TotalLen(pre.nodes) > 0
    /\ TotalLen(nodes) = 0
    /\ Len(nodes) >= 1

(***************************************************************************)
(* C13.  No empty segments: after new() and any in-bounds edits, no        *)
(* segment has length 0 unless it is the only segment.                     *)
(***************************************************************************)
C13_NoEmptySegments ==
    (ctor = "new" /\ inb) =>
        \A i \in 1..Len(nodes) : TpLen(nodes[i].tp) = 0 => Len(nodes) = 1

\* A cut within one segment has emptied it and left it in a list of several.
C13_EmptiedSegmentKept ==
    /\ ctor = "new" /\ inb /\ op = "cut" /\ PreOK /\ ~panicked
    /\ arg.seg = arg.last
    /\ TpLen(Target.tp) > 0
    /\ Len(nodes) >= 2
    /\ TpLen(nodes[arg.seg + 1].tp) = 0

(***************************************************************************)
(* C14.  Cursor append: from new(), after edit(n..n, t_j) for non-empty    *)
(* t_1..t_k, n the length before each, to_string() = t_1 ++ ... ++ t_k.    *)
(***************************************************************************)
C14_CursorAppend ==
    (ctor = "new" /\ mode = "cursor") => (~panicked /\ RipDisplay(nodes) = typed)

\* Three appends, not all ASCII, that have left three or more segments.
C14_ThreeAppends ==
    /\ ctor = "new" /\ mode = "cursor" /\ ~panicked
    /\ edits >= 3
    /\ Len(nodes) >= 3
    /\ ~IsAscii(typed)
    /\ RipDisplay(nodes) = typed

(***************************************************************************)
(* C15.  Coalescing: from new(), while every edit is an insert or a cut    *)
(* within one segment, no two adjacent segments have one type and a        *)
(* combined length < MAX_BLOCK_SIZE.                                       *)
(***************************************************************************)
C15_Coalesced ==
    (ctor = "new" /\ mode \in {"cursor", "single"}) =>
        \A i \in 1..(Len(nodes) - 1) : ~Mergeable(nodes[i], nodes[i + 1])

\* An insert in the middle of a segment has left its tail as a neighbour of
\* a run of the same type that it could have merged with.
C15_TailLeftApart ==
    /\ ctor = "new" /\ mode = "single" /\ op = "insert" /\ PreOK /\ ~panicked
    /\ 0 < Local /\ Local < TpLen(Target.tp) - 1
    /\ \E i \in 1..(Len(nodes) - 1) :
          /\ Mergeable(nodes[i], nodes[i + 1])
          /\ TpLen(nodes[i].tp) > 0 /\ TpLen(nodes[i + 1].tp) > 0

C19_WindowBounds ==
    window # <<>> => (MIN_BLOCK_SIZE <= window[1] /\ window[1] <= MAX_BLOCK_SIZE)

\* The first window of a text without a newline in reach, whose cap
\* min(MAX_BLOCK_SIZE, len - MIN_BLOCK_SIZE) falls inside a character that
\* starts before MIN_BLOCK_SIZE: the window ends below MIN_BLOCK_SIZE.
C19_WindowBelowMin ==
    /\ window # <<>>
    /\ sp.buffer = StrFrom(src, window[1])
    /\ ByteLen(src) > MAX_BLOCK_SIZE
    /\ ~IsCharBoundary(src, Min(MAX_BLOCK_SIZE, ByteLen(src) - MIN_BLOCK_SIZE))
    /\ Memrchr(10, src, MIN_BLOCK_SIZE - 1,
               Min(MAX_BLOCK_SIZE, ByteLen(src) - MIN_BLOCK_SIZE)) = -1
    /\ window[1] < MIN_BLOCK_SIZE

\* The segment a call of SpecSegment was made on, its length, and the local
\* positions of the call.
Self == pre.nodes[1]

SelfLen == TpLen(Self.tp)

LocalStart == arg.start - Self.index

LocalEnd == arg.end - Self.index

(***************************************************************************)
(* C17.  Segment::cut loses no retained element: after cut(start..end),    *)
(* start <= end, on a segment of length L <= MAX_BLOCK_SIZE, the segment   *)
(* followed by the sibling returned renders as the original without the    *)
(* elements [start, min(end, L)) (start >= L: as the original).            *)
(***************************************************************************)
C17_CutKeepsTheRest ==
    op = "seg_cut" =>
        RipDisplay(nodes) =
            IF LocalStart >= SelfLen THEN TpDisplay(Self.tp)
            ELSE Spliced(pre.nodes, LocalStart, Min(LocalEnd, SelfLen), <<>>)

\* A cut that leaves a prefix and a suffix of MIN_BLOCK_SIZE elements or more
\* each: the suffix is gone, no sibling is returned.
C17_SuffixLost ==
    /\ op = "seg_cut"
    /\ LocalStart >= MIN_BLOCK_SIZE
    /\ LocalEnd <= SelfLen
    /\ SelfLen - LocalEnd >= MIN_BLOCK_SIZE
    /\ Len(nodes) = 1
    /\ TpLen(nodes[1].tp) = LocalStart
    /\ RipDisplay(nodes) # Spliced(pre.nodes, LocalStart, LocalEnd, <<>>)

(***************************************************************************)
(* C20.  Segment::insert at the last position: on a segment of length      *)
(* L >= 1, insert(at, text) with at - index = L - 1 keeps every element in *)
(* place and puts the text after the last: the first new run is merged     *)
(* into the segment when it has the segment's type and the combined length *)
(* is < MAX_BLOCK_SIZE, otherwise it is returned with the others; the      *)
(* segment followed by what is returned renders as original ++ text.       *)
(***************************************************************************)
C20_InsertAtLastAppends ==
    (op = "seg_insert" /\ SelfLen >= 1 /\ LocalStart = SelfLen - 1) =>
        /\ RipDisplay(nodes) = TpDisplay(Self.tp) \o arg.text
        /\ nodes[1].index = Self.index
        /\ nodes[1].tp.tag = Self.tp.tag
        /\ SubSeq(nodes[1].tp.val, 1, SelfLen) = Self.tp.val
        /\ IF Mergeable(Self, Segment(0, Collect(arg.text)[1]))
           THEN /\ TpLen(nodes[1].tp) = SelfLen + TpLen(Collect(arg.text)[1])
                /\ Len(nodes) = Len(Collect(arg.text))
           ELSE /\ nodes[1] = Self
                /\ Len(nodes) = 1 + Len(Collect(arg.text))

\* An insert at the last position of a segment of two or more elements whose
\* first run was merged and whose other runs were returned.
C20_MergedAndReturned ==
    /\ op = "seg_insert"
    /\ SelfLen >= 2
    /\ LocalStart = SelfLen - 1
    /\ TpLen(nodes[1].tp) > SelfLen
    /\ Len(nodes) >= 3
    /\ RipDisplay(nodes) = TpDisplay(Self.tp) \o arg.text

\* Index i is the boundary between segment k (from 1) of ns and the next.
Boundary(ns, k, i) ==
    /\ k < Len(ns)
    /\ ns[k].index + TpLen(ns[k].tp) = i
    /\ ns[k + 1].index = i

(***************************************************************************)
(* C18.  Left attribution of boundaries: find_segment(i), with i the end   *)
(* of segment L and the index of its right neighbour R, returns the        *)
(* position of L, whatever last_edit is.                                   *)
(***************************************************************************)
C18_LeftAttribution ==
    (/\ op \in {"insert", "cut", "replace"}
     /\ IndexInvariant(pre.nodes)
     /\ pre.last_edit < Len(pre.nodes))
    => \A k \in 1..Len(pre.nodes) :
           Boundary(pre.nodes, k, arg.start) => arg.seg = k - 1

\* The lookup of a boundary between two non-empty segments, last_edit being
\* on the right one, has returned the right one.
C18_RightReturned ==
    /\ op \in {"insert", "cut", "replace"}
    /\ IndexInvariant(pre.nodes)
    /\ \E k \in 1..Len(pre.nodes) :
          /\ Boundary(pre.nodes, k, arg.start)
          /\ TpLen(pre.nodes[k].tp) > 0
          /\ TpLen(pre.nodes[k + 1].tp) > 0
          /\ pre.last_edit = k
          /\ arg.seg = k

(***************************************************************************)
(* C21.  Segment::insert at the first position: on a segment of length     *)
(* L >= 1 (L = 1 included), insert(at, text) with at the index of the      *)
(* segment leaves the segment followed by what is returned rendering as    *)
(* text ++ original.                                                       *)
(***************************************************************************)
C21_PrependSplices ==
    (op = "seg_insert" /\ SelfLen >= 1 /\ LocalStart = 0) =>
        RipDisplay(nodes) = arg.text \o TpDisplay(Self.tp)

\* An insert at the first position of a segment of one element: the text is
\* behind the element.
C21_AppendedToSingle ==
    /\ op = "seg_insert"
    /\ SelfLen = 1
    /\ LocalStart = 0
    /\ RipDisplay(nodes) = TpDisplay(Self.tp) \o arg.text
    /\ RipDisplay(nodes) # arg.text \o TpDisplay(Self.tp)

(***************************************************************************)
(* C22.  Segment::replace splices: after replace(start..end, text),        *)
(* start <= end, start <= L, on a segment with content S of length L, the  *)
(* segment followed by the segments returned renders as                    *)
(* S[0..start) ++ text ++ S[min(end, L)..L), and no segment returned is    *)
(* empty.                                                                  *)
(***************************************************************************)
C22_ReplaceSplicesSegment ==
    op = "seg_replace" =>
        /\ RipDisplay(nodes) =
               Spliced(pre.nodes, LocalStart, Min(LocalEnd, SelfLen), arg.text)
        /\ \A i \in 2..Len(nodes) : ~TpIsEmpty(nodes[i].tp)

\* A replace inside the segment: the first run of the text was merged into
\* the head, and another run and the suffix behind the range were returned.
C22_MergedRunAndSuffix ==
    /\ op = "seg_replace"
    /\ 0 < LocalStart /\ LocalStart < LocalEnd /\ LocalEnd < SelfLen
    /\ TpLen(nodes[1].tp) > LocalStart
    /\ Len(nodes) >= 3
    /\ nodes[Len(nodes)].tp.val = SubSeq(Self.tp.val, LocalEnd + 1, SelfLen)

\* The runs try_merge was given, and the first of them.
Runs == Collect(arg.text)

FirstRun == Runs[1]

(***************************************************************************)
(* C23.  Merge rule: try_merge appends the run b to the run a, and returns *)
(* nothing, if and only if a and b have the same type and                  *)
(* len(a) + len(b) < MAX_BLOCK_SIZE; otherwise a is unchanged and b is     *)
(* handed back as it was, at the front of the queue it was taken from.     *)
(***************************************************************************)
C23_MergeRule ==
    (op = "seg_try_merge" /\ Runs # <<>>) =>
        IF Self.tp.tag = FirstRun.tag /\ SelfLen + TpLen(FirstRun) < MAX_BLOCK_SIZE
        THEN /\ nodes[1].tp.tag = Self.tp.tag
             /\ nodes[1].tp.val = Self.tp.val \o FirstRun.val
             /\ Len(nodes) = Len(Runs)
             /\ \A i \in 2..Len(nodes) : nodes[i].tp = Runs[i]
        ELSE /\ nodes[1] = Self
             /\ Len(nodes) = 1 + Len(Runs)
             /\ \A i \in 2..Len(nodes) : nodes[i].tp = Runs[i - 1]

\* A run of the type of the segment that was handed back because the sum of
\* the lengths is MAX_BLOCK_SIZE.
C23_RefusedAtBound ==
    /\ op = "seg_try_merge"
    /\ Runs # <<>>
    /\ Self.tp.tag = FirstRun.tag
    /\ SelfLen >= 1
    /\ SelfLen + TpLen(FirstRun) = MAX_BLOCK_SIZE
    /\ nodes[1] = Self
    /\ nodes[2].tp = FirstRun

\* The run next() returned last and the run it will return next, when both
\* were made from the same window: the pending queue is filled from one
\* window and refilled only when empty.
LastEmitted == emitted[Len(emitted)]

NextPending == sp.segments[Len(sp.segments)]

SameWindowPair == emitted # <<>> /\ sp.segments # <<>>

\* The cluster seq has an ASCII-alphabetic byte.
HasAlphabetic(seq) == \E i \in 1..Len(seq) : IsAsciiAlphabetic(seq[i])

(***************************************************************************)
(* C24.  Typing of ASCII after non-ASCII: within a window an ASCII         *)
(* grapheme cluster behind a run of scalars (Utf8) joins that run if and   *)
(* only if it has no ASCII-alphabetic byte: a run of scalars starts with a *)
(* non-ASCII scalar and holds no ASCII letter, and an Ascii run that       *)
(* follows it in the window starts with a cluster that has a letter.  An   *)
(* ASCII cluster behind a run of clusters (Unicode) never joins it: no     *)
(* element of such a run is ASCII, and the run that follows it in the      *)
(* window is an Ascii run or starts with a non-ASCII scalar.               *)
(***************************************************************************)
C24_AsciiAfterNonAscii ==
    /\ \A i \in 1..Len(emitted) :
          /\ emitted[i].tag = "Utf8" =>
                /\ emitted[i].val[1] >= 128
                /\ \A j \in 1..TpLen(emitted[i]) : ~IsAsciiAlphabetic(emitted[i].val[j])
          /\ emitted[i].tag = "Unicode" =>
                \A j \in 1..TpLen(emitted[i]) : ~IsAscii(emitted[i].val[j])
    /\ SameWindowPair =>
          /\ (LastEmitted.tag = "Utf8" /\ NextPending.tag = "Ascii") =>
                HasAlphabetic(BreakGraphemes(NextPending.val)[1])
          /\ LastEmitted.tag = "Unicode" =>
                \/ NextPending.tag = "Ascii"
                \/ NextPending.tag = "Utf8" /\ NextPending.val[1] >= 128

\* A run of scalars that an ASCII cluster without a letter has joined, with
\* an Ascii run pending behind it from the same window.
C24_JoinedThenFlushed ==
    /\ SameWindowPair
    /\ LastEmitted.tag = "Utf8"
    /\ \E j \in 2..TpLen(LastEmitted) : LastEmitted.val[j] < 128
    /\ NextPending.tag = "Ascii"
    /\ HasAlphabetic(BreakGraphemes(NextPending.val)[1])

\* The run tp holds what its type allows: bytes below 0x80, scalars of one or
\* two bytes of UTF-8, or grapheme clusters that are not ASCII and take more
\* than two bytes, one cluster per element.
Pure(tp) ==
    CASE tp.tag = "Ascii" -> \A j \in 1..TpLen(tp) : tp.val[j] < 128
      [] tp.tag = "Utf8" -> \A j \in 1..TpLen(tp) : Utf8Len(tp.val[j]) \in {1, 2}
      [] tp.tag = "Unicode" ->
            \A j \in 1..TpLen(tp) :
                /\ ~IsAscii(tp.val[j])
                /\ ByteLen(tp.val[j]) > 2
                /\ Len(BreakGraphemes(tp.val[j])) = 1

(***************************************************************************)
(* C25.  Type purity: every run the splitter has returned or holds, and    *)
(* every segment of the buffer after any sequence of edits, is pure: an    *)
(* Ascii run holds only bytes < 0x80, a Utf8 run only scalars of one or    *)
(* two bytes of UTF-8, and each element of a Unicode run is one grapheme   *)
(* cluster that is not ASCII and is longer than two bytes.                 *)
(***************************************************************************)
C25_TypePurity ==
    /\ \A i \in 1..Len(nodes) : Pure(nodes[i].tp)
    /\ \A i \in 1..Len(emitted) : Pure(emitted[i])
    /\ \A i \in 1..Len(sp.segments) : Pure(sp.segments[i])

\* A buffer, after an edit, with non-empty segments of the three types, one
\* of them a run of scalars that holds an ASCII byte.
C25_ThreeTypes ==
    /\ op \in {"insert", "cut"}
    /\ \E i \in 1..Len(nodes) : nodes[i].tp.tag = "Ascii" /\ TpLen(nodes[i].tp) > 0
    /\ \E i \in 1..Len(nodes) : nodes[i].tp.tag = "Unicode" /\ TpLen(nodes[i].tp) > 0
    /\ \E i \in 1..Len(nodes) :
          /\ nodes[i].tp.tag = "Utf8"
          /\ \E j \in 1..TpLen(nodes[i].tp) : nodes[i].tp.val[j] < 128

\* Position k (from 0) of ns is a sound answer for index i: segment k starts
\* at or before i and ends at or after it.
Holds(ns, k, i) ==
    /\ k # Panic
    /\ k < Len(ns)
    /\ ns[k + 1].index <= i
    /\ i <= ns[k + 1].index + TpLen(ns[k + 1].tp)

\* find_segment(i) on the buffer before the last edit returned k, soundly and
\* with the segment of the last edit preferred.
Sound(k, i) ==
    /\ Holds(pre.nodes, k, i)
    /\ Holds(pre.nodes, pre.last_edit, i) => k = pre.last_edit

(***************************************************************************)
(* C26.  Lookup soundness: on a buffer that satisfies the index invariant  *)
(* and has a valid last_edit, find_segment(i), 0 <= i <= n, returns a      *)
(* position k with nodes[k].index <= i <= nodes[k].index + nodes[k].len,   *)
(* and returns last_edit whenever the segment at last_edit is such a one.  *)
(***************************************************************************)
C26_LookupSound ==
    (/\ op \in {"insert", "cut", "replace"}
     /\ IndexInvariant(pre.nodes)
     /\ pre.last_edit < Len(pre.nodes))
    => /\ arg.start <= TotalLen(pre.nodes) => Sound(arg.seg, arg.start)
       /\ (op # "insert" /\ arg.seg # Panic /\ arg.end <= TotalLen(pre.nodes))
              => Sound(arg.last, arg.end)

\* A lookup that the binary search answered: the segment of the last edit
\* does not hold the index, and a later one was returned.
C26_FoundBySearch ==
    /\ op \in {"insert", "cut", "replace"}
    /\ IndexInvariant(pre.nodes)
    /\ pre.last_edit < Len(pre.nodes)
    /\ Len(pre.nodes) >= 3
    /\ arg.start <= TotalLen(pre.nodes)
    /\ ~Holds(pre.nodes, pre.last_edit, arg.start)
    /\ arg.seg > pre.last_edit
    /\ Holds(pre.nodes, arg.seg, arg.start)

\* The byte offsets of the newlines of buffer within [MIN_BLOCK_SIZE - 1, cap),
\* cap being min(MAX_BLOCK_SIZE, remaining - MIN_BLOCK_SIZE).
NewlinesInRange(buffer) ==
    {o \in (MIN_BLOCK_SIZE - 1)..(Min(MAX_BLOCK_SIZE, ByteLen(buffer) - MIN_BLOCK_SIZE) - 1) :
        \E k \in 1..Len(buffer) : buffer[k] = 10 /\ ByteOffset(buffer, k) = o}

\* The greatest element of the non-empty set S of numbers.
Greatest(S) == CHOOSE o \in S : \A q \in S : q <= o

\* The step is a call of next() that takes a window from a text of more than
\* MAX_BLOCK_SIZE bytes with a newline in range, and the window ends just
\* behind the last such newline.
AlignedStep ==
    (/\ ctor = "none" /\ ctor' = "none"
     /\ sp.segments = <<>>
     /\ ByteLen(sp.buffer) > MAX_BLOCK_SIZE
     /\ NewlinesInRange(sp.buffer) # {})
    => /\ ByteLen(sp.buffer) - ByteLen(sp'.buffer) = Greatest(NewlinesInRange(sp.buffer)) + 1
       /\ sp'.buffer = SubSeq(sp.buffer, Len(sp.buffer) - Len(sp'.buffer) + 1, Len(sp.buffer))
       /\ sp.buffer[Len(sp.buffer) - Len(sp'.buffer)] = 10

(***************************************************************************)
(* C27.  Newline alignment: when the text left is longer than              *)
(* MAX_BLOCK_SIZE bytes and has a newline at a byte offset in              *)
(* [MIN_BLOCK_SIZE - 1, cap), cap = min(MAX_BLOCK_SIZE, left -             *)
(* MIN_BLOCK_SIZE), the next window ends just behind the last such         *)
(* newline: the newline is the last byte of the window.                    *)
(***************************************************************************)
C27_NewlineAlignment == [][AlignedStep]_vars

\* The first window of a text was cut behind the newline in range, short of
\* the cap.
C27_CutBehindLastNewline ==
    /\ ctor = "none"
    /\ Len(emitted) = 1
    /\ window # <<>>
    /\ NewlinesInRange(src) # {}
    /\ window[1] = Greatest(NewlinesInRange(src)) + 1
    /\ window[1] < Min(MAX_BLOCK_SIZE, ByteLen(src) - MIN_BLOCK_SIZE)
    /\ ByteLen(src) - ByteLen(sp.buffer) - ByteLen(DisplayAll(Reverse(sp.segments))) = window[1]

(***************************************************************************)
(* C28.  Adoption by an empty segment: insert of a non-empty text into an  *)
(* empty segment gives the segment the type and the content of the first   *)
(* run of the text, keeps its index, and returns the other runs in order.  *)
(***************************************************************************)
C28_EmptyAdopts ==
    (op = "seg_insert" /\ SelfLen = 0 /\ arg.text # <<>>) =>
        /\ nodes[1].tp = FirstRun
        /\ nodes[1].index = Self.index
        /\ Len(nodes) = Len(Runs)
        /\ \A i \in 2..Len(nodes) : nodes[i].tp = Runs[i]

\* An empty Ascii segment that has become a run of another type.
C28_Promoted ==
    /\ op = "seg_insert"
    /\ SelfLen = 0
    /\ Self.tp.tag = "Ascii"
    /\ nodes[1].tp.tag # "Ascii"
    /\ TpLen(nodes[1].tp) > 0
    /\ nodes[1].tp = FirstRun

\* The runs a and b have the same type and the same content.
SameRun(a, b) == a.tag = b.tag /\ a.val = b.val

\* The number of segments behind s_last in the buffer before the last edit.
Behind == Len(pre.nodes) - arg.last - 1

\* The segments before s_first are as they were.
FrameBefore ==
    /\ Len(nodes) >= arg.seg
    /\ \A k \in 1..arg.seg :
          /\ SameRun(nodes[k].tp, pre.nodes[k].tp)
          /\ nodes[k].index = pre.nodes[k].index

\* The segments behind s_last are the last segments of the buffer, with the
\* content and type they had and the sum of the lengths before them as index.
FrameBehind ==
    /\ Len(nodes) >= arg.seg + 1 + Behind
    /\ \A j \in 1..Behind :
          /\ SameRun(nodes[Len(nodes) - Behind + j].tp,
                     pre.nodes[Len(pre.nodes) - Behind + j].tp)
          /\ nodes[Len(nodes) - Behind + j].index =
                 TotalLen(SubSeq(nodes, 1, Len(nodes) - Behind + j - 1))

(***************************************************************************)
(* C29.  Edit frame: an edit within bounds of a buffer that satisfies the  *)
(* index invariant and has a valid last_edit leaves the segments before    *)
(* s_first (the segment of range.start) as they were, content, type and    *)
(* index, and leaves the content and type of the segments behind s_last    *)
(* (the segment of range.end) as they were; the index of each of these is  *)
(* the sum of the lengths before it.                                       *)
(***************************************************************************)
C29_EditFrame ==
    (op \in {"insert", "cut", "replace"} /\ PreOK) =>
        /\ arg.seg # Panic /\ arg.last # Panic
        /\ FrameBefore
        /\ FrameBehind

\* An insert or a cut with a segment before s_first and one behind s_last,
\* whose index the edit has rewritten.
C29_BothSidesFramed ==
    /\ op \in {"insert", "cut"}
    /\ PreOK
    /\ arg.seg # Panic /\ arg.last # Panic
    /\ arg.seg >= 1
    /\ Behind >= 1
    /\ nodes[Len(nodes)].index # pre.nodes[Len(pre.nodes)].index
    /\ SameRun(nodes[Len(nodes)].tp, pre.nodes[Len(pre.nodes)].tp)

\* A call of next(): while text or runs are left it returns a run, takes a
\* window only when no run is pending, and a window takes at least one byte
\* of the text; when nothing is left it returns None, and after None it
\* returns None again and changes nothing.
NextProgress ==
    /\ (sp.buffer # <<>> \/ sp.segments # <<>>) =>
          /\ Len(emitted') = Len(emitted) + 1
          /\ ~done'
    /\ sp.segments # <<>> => sp'.buffer = sp.buffer
    /\ (sp.segments = <<>> /\ sp.buffer # <<>>) =>
          ByteLen(sp'.buffer) < ByteLen(sp.buffer)
    /\ (sp.buffer = <<>> /\ sp.segments = <<>>) => (done' /\ emitted' = emitted)
    /\ done => (done' /\ emitted' = emitted /\ sp' = sp)

(***************************************************************************)
(* C30.  Termination of the splitter: on every text, next() called again   *)
(* and again returns None after finitely many runs: every call that is not *)
(* at the end returns a run, a window is taken only when no run is         *)
(* pending, and every window takes at least one byte of the text left.  On *)
(* the empty text the first call returns None, and once None is returned   *)
(* every later call returns None.                                          *)
(***************************************************************************)
C30_SplitterTerminates == <>done /\ [][NextProgress]_vars

\* next() has returned None after it cut a text of more than MAX_BLOCK_SIZE
\* bytes into windows: nothing is left.
C30_EndAfterWindows ==
    /\ done
    /\ window # <<>>
    /\ Len(emitted) >= 2
    /\ sp.buffer = <<>> /\ sp.segments = <<>>

\* The run tp is not empty and has at most MAX_BLOCK_SIZE elements.
WellFormed(tp) == ~TpIsEmpty(tp) /\ TpLen(tp) <= MAX_BLOCK_SIZE

(***************************************************************************)
(* C31.  Well-formed runs: on every text, no run that next() has returned  *)
(* and no run that waits in the queue of the splitter is empty, and none   *)
(* is longer than MAX_BLOCK_SIZE elements; a window that starts with a     *)
(* cluster that is not ASCII queues no empty Ascii run.                    *)
(***************************************************************************)
C31_RunsWellFormed ==
    /\ \A i \in 1..Len(emitted) : WellFormed(emitted[i])
    /\ \A i \in 1..Len(sp.segments) : WellFormed(sp.segments[i])
    /\ (emitted # <<>> /\ ~IsAscii(BreakGraphemes(src)[1])) => emitted[1].tag # "Ascii"

\* The text starts with a cluster that is not ASCII and is longer than
\* MAX_BLOCK_SIZE bytes: its first run is not an Ascii run, a window was cut,
\* and runs of the window wait in the queue.
C31_WindowStartsNonAscii ==
    /\ ctor = "none"
    /\ emitted # <<>>
    /\ ~IsAscii(BreakGraphemes(src)[1])
    /\ emitted[1].tag # "Ascii"
    /\ window # <<>>
    /\ sp.segments # <<>>

=============================================================================
